---- MODULE Spec2Model ----
(***************************************************************************)
(* A model of the Gommo web client (src/gommo-client.js): the HTTP wrapper *)
(* _request, the player operations built on it, the polling loop, the      *)
(* event subscription and the event-listener registry.                     *)
(*                                                                         *)
(* One action of the model is one macrotask of the JavaScript event loop   *)
(* (a call from the application, a network event, a timer firing)          *)
(* together with every promise continuation that the macrotask releases:   *)
(* the microtask queue drains before the next macrotask starts.            *)
(***************************************************************************)
EXTENDS Integers, Sequences, FiniteSets, TLC

VARIABLES
    args,               \* the arguments the constructor was called with
    baseUrl,            \* GommoClient.baseUrl
    enablePolling,      \* GommoClient.enablePolling
    app,                \* the application's variables (state, tiles, timers)
    _requestId,         \* GommoClient._requestId
    _connectionHealth,  \* GommoClient._connectionHealth
    _pollingTimer,      \* GommoClient._pollingTimer: Null or <<timer id>>
    _lastPlayerState,   \* GommoClient._lastPlayerState: Null or <<ui state>>
    _eventListeners,    \* GommoClient._eventListeners: event type -> listeners
    _requestQueue,      \* GommoClient._requestQueue (a Map, as a set of keys)
    onStateChange,      \* is options.onStateChange configured
    onError,            \* is options.onError configured
    reqs,               \* the fetches in flight, by request id
    tasks,              \* the pending async operations (each awaits fetches)
    intervals,          \* the armed setInterval timers: timer id -> playerId
    timerSeq,           \* the last timer id handed out by setInterval
    sub,                \* the closure of subscribeToPlayerEvents
    server,             \* the game server's event window (environment)
    out,                \* what the last macrotask sent, emitted and settled
    hist                \* history: what earlier macrotasks did

\* the fields no method assigns after the constructor
fixed == <<args, baseUrl, enablePolling>>

vars == <<fixed, app, _requestId, _connectionHealth, _pollingTimer,
          _lastPlayerState, _eventListeners, _requestQueue, onStateChange, onError, reqs,
          tasks, intervals, timerSeq, sub, server, out, hist>>

-----------------------------------------------------------------------------
(* Bounds of the model *)

MaxRequests == 4    \* requests a client makes in one behaviour
MaxPollRequests == 6    \* the same, of a client that only polls
MaxSeqRequests == 12    \* the same, of a client whose polls do not overlap
MaxTurnRequests == 8    \* the same, of a client that only executes turns
MaxTime == 1        \* Date.now() ranges over 1..MaxTime
MaxTasks == 2       \* operations of the application pending at once
MaxTimers == 1      \* setInterval calls in one behaviour
MaxListeners == 2   \* listeners registered at once
MaxEvents == 3      \* events the server produces in one behaviour
MaxServerTurns == 2 \* turns the server plays in one behaviour
MaxOptionRequests == 2  \* requests of a client whose operations are called
MaxGames == 1           \* times the start button is clicked
MaxAppRequests == 8     \* requests of the application's client
MaxClicks == 2          \* tile clicks that reach the server

-----------------------------------------------------------------------------
(* JavaScript values *)

Null == << >>
Some(x) == <<x>>

\* a string is the sequence of its characters; undefined is not a string
Str(chars) == [t |-> "string", v |-> chars]
Undefined == [t |-> "undefined", v |-> << >>]
Falsy(val) == val.t = "undefined" \/ val.v = << >>

UNDEF == -1         \* error.statusCode of an error that has none

LowerChar(c) ==
    CASE c = "A" -> "a" [] c = "C" -> "c" [] c = "D" -> "d" [] c = "E" -> "e"
      [] c = "F" -> "f" [] c = "H" -> "h" [] c = "I" -> "i" [] c = "N" -> "n"
      [] c = "O" -> "o" [] c = "P" -> "p" [] c = "R" -> "r" [] c = "S" -> "s"
      [] c = "T" -> "t" [] c = "U" -> "u" [] c = "W" -> "w" [] c = "Y" -> "y"
      [] OTHER -> c

toLowerCase(s) == [i \in 1..Len(s) |-> LowerChar(s[i])]

RECURSIVE encodeURIComponent(_)
encodeURIComponent(s) ==
    IF s = << >> THEN << >>
    ELSE (CASE Head(s) = " " -> <<"%", "2", "0">>
            [] Head(s) = "/" -> <<"%", "2", "F">>
            [] OTHER -> <<Head(s)>>) \o encodeURIComponent(Tail(s))

\* a list of directions that lacks 'stay'
validDirectionsNoStay ==
    { <<"n","o","r","t","h">>, <<"e","a","s","t">>, <<"s","o","u","t","h">>,
      <<"w","e","s","t">> }

validDirections ==
    { <<"n","o","r","t","h">>, <<"e","a","s","t">>, <<"s","o","u","t","h">>,
      <<"w","e","s","t">>, <<"s","t","a","y">> }

validCards ==
    { <<"f","o","o","d">>, <<"w","o","o","d">>, <<"w","e","a","p","o","n">>,
      <<"d","i","c","e">>, <<"r","e","s","e","a","r","c","h">>,
      <<"n","o","n","e">> }

\* the arguments the application passes in the model
PlayerIdInputs == { Str(<<"p"," ","1">>), Str(<< >>), Undefined }
DirectionInputs ==
    { Str(<<"N","o","r","t","h">>), Str(<<"s","t","a","y">>),
      Str(<<"u","p">>), Str(<< >>), Undefined }
CardInputs ==
    { Str(<<"F","O","O","D">>), Str(<<"n","o","n","e">>),
      Str(<<"g","o","l","d">>), Undefined }

-----------------------------------------------------------------------------
(* Errors *)

GommoError(statusCode) == [name |-> "GommoError", statusCode |-> statusCode]
TypeError == [name |-> "TypeError", statusCode |-> UNDEF]
AbortError == [name |-> "AbortError", statusCode |-> UNDEF]

Resolved(value) == [ok |-> TRUE, value |-> value, error |-> TypeError]
Rejected(error) == [ok |-> FALSE, value |-> Null, error |-> error]

-----------------------------------------------------------------------------
(* The server's answers (environment) *)

HttpErrorStatuses == {404, 500}
Times == 1..MaxTime

\* GET /player/{id}: the fields of the player the client reads; a body that
\* is not a player object (wellFormed FALSE) makes the formatting throw
Tiles == { [XPos |-> 0, YPos |-> 0], [XPos |-> 1, YPos |-> 0],
           [XPos |-> 0, YPos |-> 1] }
PlayerData ==
    { p \in [Alive : BOOLEAN, CurrentTile : Tiles, wellFormed : {TRUE},
             Direction : {<<"S", "t", "a", "y">>}] :
        ~p.Alive => p.CurrentTile = [XPos |-> 0, YPos |-> 0] }
MalformedPlayer ==
    [Alive |-> FALSE, CurrentTile |-> [XPos |-> 0, YPos |-> 0],
     wellFormed |-> FALSE, Direction |-> <<"S", "t", "a", "y">>]
\* GET /player/{id}/surroundings: the centre tile's zombie count, which is
\* the server's
SurroundingsData == [ZombieCount : {server.zombies}, wellFormed : BOOLEAN]
\* GET /config
GameData == [remainingTurns : {9, 8}, havePlayersWon : BOOLEAN]

\* a request path: /config, /player/{id}, /player/{id}/{sub}[/{arg}][?turns=n]
Path(res, id, subPath, arg, turns) ==
    [res |-> res, id |-> id, sub |-> subPath, arg |-> arg, turns |-> turns]
-----------------------------------------------------------------------------
(* The state a macrotask works on, as one record *)

Cur ==
    [rid |-> _requestId, health |-> _connectionHealth, reqs |-> reqs,
     tasks |-> tasks, last |-> _lastPlayerState, sub |-> sub,
     out |-> << >>, hist |-> hist, app |-> app,
     pollingTimer |-> _pollingTimer, intervals |-> intervals,
     timerSeq |-> timerSeq]

Commit(s) ==
    /\ _requestId' = s.rid
    /\ _connectionHealth' = s.health
    /\ reqs' = s.reqs
    /\ tasks' = s.tasks
    /\ _lastPlayerState' = s.last
    /\ sub' = s.sub
    /\ out' = s.out
    /\ hist' = s.hist
    /\ app' = s.app
    /\ _pollingTimer' = s.pollingTimer
    /\ intervals' = s.intervals
    /\ timerSeq' = s.timerSeq

Emit(s, o) == [s EXCEPT !.out = Append(@, o)]

NoSub == [created |-> FALSE, isActive |-> FALSE, lastEventCount |-> 0,
          timeout |-> FALSE, playerId |-> Undefined, turns |-> 0]

\* the function of the application that awaits an operation: none when the
\* operation is called from elsewhere
NoCaller == [fn |-> "none", retryCount |-> 0, tileId |-> << >>]

NewTask(op, playerId, direction, cardType, updateState) ==
    [op |-> op, pc |-> "start", wait |-> {}, playerId |-> playerId,
     direction |-> direction, cardType |-> cardType,
     updateState |-> updateState, player |-> Null, surroundings |-> Null,
     before |-> Null, log |-> << >>, caller |-> NoCaller]

-----------------------------------------------------------------------------
(* GommoClient._updateConnectionHealth *)

_updateConnectionHealth(h, success, now) ==
    IF success
    THEN [consecutiveFailures |-> 0, lastSuccessTime |-> Some(now),
          isHealthy |-> TRUE]
    ELSE [consecutiveFailures |-> h.consecutiveFailures + 1,
          lastSuccessTime |-> h.lastSuccessTime,
          isHealthy |-> h.consecutiveFailures + 1 < 3]

healthyConnection ==
    [consecutiveFailures |-> 0, lastSuccessTime |-> Null, isHealthy |-> TRUE]

\* a stopPolling that clears the interval but keeps the handle
stopPollingKeepsHandle(timer, armed) ==
    IF timer # Null
    THEN [timer |-> timer,
          armed |-> [i \in DOMAIN armed \ {timer[1]} |-> armed[i]]]
    ELSE [timer |-> timer, armed |-> armed]

(* GommoClient.stopPolling: the timer, and the armed intervals, afterwards *)
stopPolling(timer, armed) ==
    IF timer # Null
    THEN [timer |-> Null,
          armed |-> [i \in DOMAIN armed \ {timer[1]} |-> armed[i]]]
    ELSE [timer |-> timer, armed |-> armed]

(* GommoClient.startPolling: the poll timer is armed for playerId *)
startPolling(s, playerId) ==
    LET stopped == IF s.pollingTimer # Null
                   THEN stopPolling(s.pollingTimer, s.intervals)
                   ELSE [timer |-> s.pollingTimer, armed |-> s.intervals]
        id == s.timerSeq + 1
    IN  [s EXCEPT !.timerSeq = id,
                  !.intervals = [i \in DOMAIN stopped.armed \cup {id} |->
                                    IF i = id THEN playerId
                                    ELSE stopped.armed[i]],
                  !.pollingTimer = Some(id)]

\* the task t once it awaits one more request
Await(t, requestId, method, path, pc) ==
    [t EXCEPT !.pc = pc, !.wait = @ \cup {requestId},
              !.log = Append(@, [id |-> requestId, method |-> method,
                                 base |-> baseUrl, path |-> path])]

(* GommoClient._request, up to the await of fetch: the request id is taken, *)
(* the abort timer is armed and the fetch is sent.  The task t awaits it.   *)
_request(s, t, method, path, pc) ==
    LET requestId == s.rid + 1
        rq == [method |-> method, path |-> path, pc |-> "fetch",
               timer |-> TRUE, status |-> 0]
    IN  [s EXCEPT !.rid = requestId,
                  !.reqs = [r \in DOMAIN s.reqs \cup {requestId} |->
                               IF r = requestId THEN rq ELSE s.reqs[r]],
                  !.tasks = (@ \ {t}) \cup
                            {Await(t, requestId, method, path, pc)},
                  !.out = Append(@, [k |-> "send", id |-> requestId,
                                     method |-> method, base |-> baseUrl,
                                     path |-> path])]

(* GommoClient._emitEvent: every listener of the type is called with data *)
_emitEvent(s, eventType, data) ==
    Emit(s, [k |-> "emit", type |-> eventType, data |-> data,
             to |-> IF eventType \in DOMAIN _eventListeners
                    THEN _eventListeners[eventType] ELSE << >>])
-----------------------------------------------------------------------------
(* The application (src/unnamed/part_001): its callbacks *)

\* DIRECTION_MAP: tile ids to directions and directions to tile ids;
\* Undefined for any other key
DIRECTION_MAP(key) ==
    CASE key = <<"N", "N">> -> Str(<<"n", "o", "r", "t", "h">>)
      [] key = <<"W", "W">> -> Str(<<"w", "e", "s", "t">>)
      [] key = <<"E", "E">> -> Str(<<"e", "a", "s", "t">>)
      [] key = <<"S", "S">> -> Str(<<"s", "o", "u", "t", "h">>)
      [] key = <<"C", "E">> -> Str(<<"s", "t", "a", "y">>)
      [] key = <<"n", "o", "r", "t", "h">> -> Str(<<"N", "N">>)
      [] key = <<"w", "e", "s", "t">> -> Str(<<"W", "W">>)
      [] key = <<"e", "a", "s", "t">> -> Str(<<"E", "E">>)
      [] key = <<"s", "o", "u", "t", "h">> -> Str(<<"S", "S">>)
      [] key = <<"s", "t", "a", "y">> -> Str(<<"C", "E">>)
      [] OTHER -> Undefined

\* the ids of the tile widgets that can be clicked to move
TileIds == {<<"N", "N">>, <<"W", "W">>, <<"E", "E">>, <<"S", "S">>,
            <<"C", "E">>}

(* updateTileStates: the tile that is active afterwards (Undefined: none) *)
updateTileStates(a) ==
    LET tileId == DIRECTION_MAP(toLowerCase(a.player.direction))
    IN  [a EXCEPT !.active = IF ~Falsy(tileId) /\ tileId.v \in TileIds
                             THEN tileId ELSE Undefined]

(* updatePlayerState, with the player of a state the client formatted *)
updatePlayerState(a, playerData) ==
    [a EXCEPT !.player = [position |-> playerData.position,
                          direction |-> IF playerData.direction # << >>
                                        THEN playerData.direction
                                        ELSE <<"S", "t", "a", "y">>,
                          alive |-> playerData.alive]]

(* updateGameState *)
updateGameState(a, gameData) ==
    [a EXCEPT !.hasWon = gameData.havePlayersWon]

(* handleStateChange: options.onStateChange of the client startGame makes *)
handleStateChange(a, newState) ==
    updateGameState(updateTileStates(updatePlayerState(a, newState.player)),
                    newState.gameState)

(* handleClientError: options.onError of the client startGame makes *)
handleClientError(a, error) == [a EXCEPT !.connected = FALSE]

\* the client calls this.onStateChange(data)
CallOnStateChange(s, type, data) ==
    LET s1 == Emit(s, [k |-> "onStateChange", type |-> type, data |-> data])
    IN  IF s.app.gameClient /\ type = "state"
        THEN [s1 EXCEPT !.app = handleStateChange(@, data)]
        ELSE s1

\* the client calls this.onError(error)
CallOnError(s, t, error) ==
    LET s1 == Emit(s, [k |-> "onError", error |-> error, task |-> t])
    IN  IF s.app.gameClient
        THEN [s1 EXCEPT !.app = handleClientError(@, error)]
        ELSE s1
-----------------------------------------------------------------------------
(* How an operation ends *)

\* the promise the operation returned settles
Return(s, t, outcome) ==
    Emit(s, [k |-> "return", task |-> t, ok |-> outcome.ok,
             error |-> outcome.error, value |-> outcome.value])

\* a catch block that lets only network errors pass
RethrownUnlessNetwork(error) == error.statusCode # 0

(* GommoClient._triggerStateUpdate, the catch block: is the error rethrown *)
Rethrown(error) == error.statusCode # 0 /\ error.statusCode # 408

(* GommoClient._triggerStateUpdate, the catch block; for a poll, then the   *)
(* catch of the interval callback of startPolling                           *)
_triggerStateUpdateCatch(s, t, error) ==
    LET rethrown == Rethrown(error)
        s1 == Emit(_emitEvent(s, "error", error),
                   [k |-> "update", task |-> t, ok |-> ~rethrown,
                    error |-> error, prev |-> s.last])
    IN  IF t.op = "poll"
        THEN IF rethrown /\ onError
             THEN CallOnError(s1, t, error)
             ELSE s1
        ELSE IF rethrown THEN Return(s1, t, Rejected(error))
             ELSE Return(s1, t, Resolved(Null))

\* a catch block that rethrows without telling onError
executeTurnCatchSilent(s, t, error) == Return(s, t, Rejected(error))

(* GommoClient.executeTurn, the catch block *)
executeTurnCatch(s, t, error) ==
    LET s1 == IF onError THEN CallOnError(s, t, error) ELSE s
    IN  Return(s1, t, Rejected(error))

\* getUIPlayerState rejects inside the operation of task t
UIFail(s, t, error) ==
    IF t.op = "executeTurn" THEN executeTurnCatch(s, t, error)
    ELSE _triggerStateUpdateCatch(s, t, error)

(* handleTileClick after the await of setPlayerDirection: the local state *)
(* is updated, or the tiles are reverted in the catch block               *)
handleTileClickSettled(s, t, outcome) ==
    IF outcome.ok
    THEN [s EXCEPT !.app.player.direction = t.direction.v,
                   !.app.moved = Append(@, t.direction.v)]
    ELSE [s EXCEPT !.app = updateTileStates(@)]

\* setPlayerDirection or playCard rejects inside the operation of task t
OpFail(s, t, error) ==
    IF t.op = "executeTurn" THEN executeTurnCatch(s, t, error)
    ELSE IF t.caller.fn = "handleTileClick"
    THEN handleTileClickSettled(s, t, Rejected(error))
    ELSE Return(s, t, Rejected(error))

-----------------------------------------------------------------------------
(* GommoClient.getUIPlayerState: getPlayerState sends getPlayer and         *)
(* getPlayerSurroundings together (Promise.all); each checks the player id  *)
getUIPlayerState(s, t) ==
    IF Falsy(t.playerId) THEN UIFail(s, t, GommoError(400))
    ELSE LET id == encodeURIComponent(t.playerId.v)
             t0 == [t EXCEPT !.player = Null, !.surroundings = Null]
             p1 == Path("player", id, "", << >>, 0)
             p2 == Path("player", id, "surroundings", << >>, 0)
             s1 == _request(s, t0, "GET", p1, "ui_state")
         IN  _request(s1, Await(t0, s.rid + 1, "GET", p1, "ui_state"),
                      "GET", p2, "ui_state")

\* the formatted state object getUIPlayerState returns
FormatUIState(player, surroundings, gameState) ==
    [player |-> [alive |-> player.Alive, direction |-> player.Direction,
                 position |-> [x |-> player.CurrentTile.XPos,
                               y |-> player.CurrentTile.YPos]],
     surroundings |-> [center |-> [zombies |-> surroundings.ZombieCount,
                                   safe |-> surroundings.ZombieCount = 0]],
     gameState |-> gameState]

(* GommoClient._triggerStateUpdate, the try block up to the await *)
_triggerStateUpdate(s, t) ==
    IF Falsy(t.playerId) THEN _triggerStateUpdateCatch(s, t, GommoError(400))
    ELSE getUIPlayerState(s, t)

\* a death test that does not look at the cached alive flag
IsPlayerDeathAnyDead(last, currentState, hasSignificantChanges) ==
    /\ hasSignificantChanges
    /\ last # Null
    /\ ~currentState.player.alive

(* GommoClient._triggerStateUpdate: is 'playerDeath' emitted *)
IsPlayerDeath(last, currentState, hasSignificantChanges) ==
    /\ hasSignificantChanges
    /\ last # Null
    /\ last[1].player.alive
    /\ ~currentState.player.alive

\* a win test that does not look at the significance of the update
IsGameWonAlways(currentState, hasSignificantChanges) ==
    currentState.gameState.havePlayersWon

(* GommoClient._triggerStateUpdate: is 'gameWon' emitted *)
IsGameWon(currentState, hasSignificantChanges) ==
    hasSignificantChanges /\ currentState.gameState.havePlayersWon

\* an update that calls the callback but forgets to cache the state
NotifyWithoutCache(s, currentState) ==
    IF onStateChange
    THEN CallOnStateChange(s, "state", currentState)
    ELSE s

(* GommoClient._triggerStateUpdate: the state is cached, the callback called *)
NotifyStateChange(s, currentState) ==
    LET s1 == [s EXCEPT !.last = Some(currentState)]
    IN  IF onStateChange
        THEN CallOnStateChange(s1, "state", currentState)
        ELSE s1

(* GommoClient._triggerStateUpdate, the try block after the await *)
ApplyState(s, t, currentState) ==
    LET last == s.last
        hasSignificantChanges ==
            \/ last = Null
            \/ last[1].player.position.x # currentState.player.position.x
            \/ last[1].player.position.y # currentState.player.position.y
            \/ last[1].player.alive # currentState.player.alive
            \/ last[1].gameState.remainingTurns
                   # currentState.gameState.remainingTurns
        death == IsPlayerDeath(last, currentState, hasSignificantChanges)
        won == IsGameWon(currentState, hasSignificantChanges)
        s1 == _emitEvent(s, "stateChange", currentState)
        s2 == IF death THEN _emitEvent(s1, "playerDeath", currentState) ELSE s1
        s3 == IF won THEN _emitEvent(s2, "gameWon", currentState) ELSE s2
        s4 == [s3 EXCEPT !.hist.applied = TRUE,
                         !.hist.latestPoll =
                             IF t.op = "poll" /\ t.log[1].id > @
                             THEN t.log[1].id ELSE @,
                         !.hist.deaths = IF death THEN @ + 1 ELSE @,
                         !.hist.aliveSince =
                             IF death THEN FALSE
                             ELSE @ \/ currentState.player.alive]
        s5 == NotifyStateChange(s4, currentState)
        s6 == Emit(s5, [k |-> "update", task |-> t, ok |-> TRUE,
                        error |-> TypeError, prev |-> s.last])
    IN  IF t.op = "poll" THEN s6 ELSE Return(s6, t, Resolved(Null))

-----------------------------------------------------------------------------
(* GommoClient.playCard up to the await of _request *)
playCard(s, t) ==
    IF Falsy(t.playerId) THEN OpFail(s, t, GommoError(400))
    ELSE IF t.cardType.t # "string" THEN OpFail(s, t, TypeError)
    ELSE LET normalizedCardType == toLowerCase(t.cardType.v)
         IN  IF normalizedCardType \notin validCards
             THEN OpFail(s, t, GommoError(400))
             ELSE _request(s, t, "PUT",
                           Path("player", encodeURIComponent(t.playerId.v),
                                "play", normalizedCardType, 0), "card")

(* GommoClient.consumeCard up to its first await *)
consumeCard(s, t) == playCard(s, t)

\* the card request of task t resolved: playCard returns
AfterCard(s, t) ==
    CASE t.op = "playCard" -> Return(s, t, Resolved(Null))
      [] t.op = "consumeCard" ->
            IF t.updateState THEN _triggerStateUpdate(s, t)
            ELSE Return(s, t, Resolved(Null))
      [] OTHER -> getUIPlayerState(s, t)    \* executeTurn: the after-state

(* GommoClient.setPlayerDirection up to the await of _request *)
setPlayerDirection(s, t) ==
    IF Falsy(t.playerId) THEN OpFail(s, t, GommoError(400))
    ELSE IF t.direction.t # "string" THEN OpFail(s, t, TypeError)
    ELSE LET normalizedDirection == toLowerCase(t.direction.v)
         IN  IF normalizedDirection \notin validDirections
             THEN OpFail(s, t, GommoError(400))
             ELSE _request(s, t, "PUT",
                           Path("player", encodeURIComponent(t.playerId.v),
                                "direction", normalizedDirection, 0),
                           "direction")

(* GommoClient.movePlayer up to its first await *)
movePlayer(s, t) == setPlayerDirection(s, t)

\* the direction request of task t resolved: setPlayerDirection returns
AfterDirection(s, t) ==
    CASE t.op = "setPlayerDirection" ->
            IF t.caller.fn = "handleTileClick"
            THEN handleTileClickSettled(s, t, Resolved(Null))
            ELSE Return(s, t, Resolved(Null))
      [] t.op = "movePlayer" ->
            IF t.updateState THEN _triggerStateUpdate(s, t)
            ELSE Return(s, t, Resolved(Null))
      [] OTHER -> consumeCard(s, t)         \* executeTurn: the card

(* GommoClient.executeTurn after the second getUIPlayerState *)
TurnComplete(s, t, afterState) ==
    LET s1 == IF onStateChange
              THEN CallOnStateChange(s, "turn_complete", afterState)
              ELSE s
    IN  Return(s1, t, Resolved(Some([success |-> TRUE,
                                     before |-> t.before[1],
                                     after |-> afterState])))

\* getUIPlayerState resolved inside the operation of task t
UIDone(s, t, uiState) ==
    IF t.op = "executeTurn"
    THEN IF t.before = Null
         THEN movePlayer(s, [t EXCEPT !.before = Some(uiState)])
         ELSE TurnComplete(s, t, uiState)
    ELSE ApplyState(s, t, uiState)

\* one request of getPlayerState (Promise.all) settled
OnPlayerState(s, t, rq, outcome) ==
    IF ~outcome.ok THEN UIFail(s, [t EXCEPT !.wait = {}], outcome.error)
    ELSE LET t1 == IF rq.path.sub = "surroundings"
                   THEN [t EXCEPT !.surroundings = outcome.value]
                   ELSE [t EXCEPT !.player = outcome.value]
         IN  IF t1.player = Null \/ t1.surroundings = Null
             THEN [s EXCEPT !.tasks = @ \cup {t1}]
             ELSE IF ~t1.player[1].wellFormed
                     \/ ~t1.surroundings[1].wellFormed
             THEN UIFail(s, t1, TypeError)
             ELSE _request(s, t1, "GET",
                           Path("config", << >>, "", << >>, 0), "ui_config")

\* the getGameState request of getUIPlayerState settled
OnGameState(s, t, outcome) ==
    IF ~outcome.ok THEN UIFail(s, t, outcome.error)
    ELSE UIDone(s, t, FormatUIState(t.player[1], t.surroundings[1],
                                    outcome.value[1]))
-----------------------------------------------------------------------------
(* GommoClient.getGameState *)
getGameState(s, t) ==
    _request(s, t, "GET", Path("config", << >>, "", << >>, 0), "return")

(* GommoClient.addPlayer; the task's playerId is the playerName *)
addPlayer(s, t) ==
    IF Falsy(t.playerId) \/ t.playerId.t # "string"
    THEN Return(s, t, Rejected(GommoError(400)))
    ELSE _request(s, t, "POST",
                  Path("player", encodeURIComponent(t.playerId.v), "",
                       << >>, 0), "return")

(* GommoClient.getPlayer *)
getPlayer(s, t) ==
    IF Falsy(t.playerId) THEN Return(s, t, Rejected(GommoError(400)))
    ELSE _request(s, t, "GET",
                  Path("player", encodeURIComponent(t.playerId.v), "",
                       << >>, 0), "return")

(* GommoClient.getPlayerSurroundings *)
getPlayerSurroundings(s, t) ==
    IF Falsy(t.playerId) THEN Return(s, t, Rejected(GommoError(400)))
    ELSE _request(s, t, "GET",
                  Path("player", encodeURIComponent(t.playerId.v),
                       "surroundings", << >>, 0), "return")
-----------------------------------------------------------------------------
(* GommoClient.getPlayerEvents up to the await of _request *)
getPlayerEvents(s, t, turns) ==
    _request(s, t, "GET",
             Path("player", t.playerId.v, "events", << >>, turns), "events")

(* GommoClient.getPlayerEventsByType up to the await of _request *)
getPlayerEventsByType(s, t, eventType, turns) ==
    _request(s, t, "GET",
             Path("player", t.playerId.v, "events", <<"type", eventType>>,
                  turns), "events")

\* this._handleError(...) in the catch blocks: GommoClient has no such method
_handleError == Rejected(TypeError)

(* GommoClient.getPlayerEvents after the await: what the method settles to *)
PlayerEventsOutcome(outcome) ==
    IF outcome.ok THEN outcome ELSE _handleError

(* subscribeToPlayerEvents: the closure pollEvents up to the await *)
pollEvents(s) ==
    IF ~s.sub.isActive THEN s
    ELSE getPlayerEvents(s, NewTask("pollEvents", s.sub.playerId, Undefined,
                                    Undefined, FALSE), s.sub.turns)

\* Array.prototype.slice(from) of a sequence
Slice(seq, from) ==
    IF from >= Len(seq) THEN << >> ELSE SubSeq(seq, from + 1, Len(seq))

SeqToSet(seq) == { seq[i] : i \in 1..Len(seq) }

(* subscribeToPlayerEvents: the closure pollEvents after the await *)
AfterEvents(s, t, outcome) ==
    LET eventsData == outcome.value[1]
        isNew == outcome.ok /\ eventsData.count > s.sub.lastEventCount
        newEvents == Slice(eventsData.events, s.sub.lastEventCount)
        s1 == IF isNew
              THEN _emitEvent(
                     Emit([s EXCEPT !.sub.lastEventCount = eventsData.count,
                                    !.hist.delivered =
                                        [e \in DOMAIN @ |->
                                            IF e \in SeqToSet(newEvents)
                                            THEN @[e] + 1 ELSE @[e]]],
                          [k |-> "onNewEvents", events |-> newEvents]),
                     "newPlayerEvents", newEvents)
              ELSE s
        s2 == IF outcome.ok
              THEN [s1 EXCEPT !.hist.reported =
                                  @ \cup SeqToSet(eventsData.events)]
              ELSE s1
    IN  IF s2.sub.isActive THEN [s2 EXCEPT !.sub.timeout = TRUE] ELSE s2

\* the request of getPlayerEvents settled
OnEvents(s, t, outcome) ==
    LET s1 == IF outcome.ok
              THEN _emitEvent(s, IF t.op = "getPlayerEventsByType"
                                 THEN "filteredEventsReceived"
                                 ELSE "eventsReceived",
                              outcome.value[1].events)
              ELSE s
        result == PlayerEventsOutcome(outcome)
    IN  IF t.op = "pollEvents" THEN AfterEvents(s1, t, result)
        ELSE Return(s1, t, result)

-----------------------------------------------------------------------------
(* The application (src/unnamed/part_001): startGame and the data updates *)

MAX_RETRY_ATTEMPTS == 3     \* CONFIG.MAX_RETRY_ATTEMPTS
RETRY_DELAY == 1000         \* CONFIG.RETRY_DELAY

\* a delay that grows with every retry
RetryDelayBackoff(retryCount) == RETRY_DELAY * (retryCount + 1)

\* the delay of the setTimeout that schedules the retry after the attempt
\* retryCount
RetryDelay(retryCount) == RETRY_DELAY

\* a catch block that retries once more
UpdateCatchOnceMore(a, fn, retryCount) ==
    IF retryCount <= MAX_RETRY_ATTEMPTS
    THEN [a EXCEPT !.timers = @ \cup {[fn |-> fn,
                                      retryCount |-> retryCount + 1,
                                      delay |-> RetryDelay(retryCount)]},
                   !.retry[fn].delays = Append(@, RetryDelay(retryCount))]
    ELSE [a EXCEPT !.retry[fn].messages = @ + 1]

(* updatePlayerData, updateGameConfig, updateSurroundingsData: the catch   *)
(* block; the retry is scheduled or the user message is shown              *)
UpdateCatch(a, fn, retryCount) ==
    IF retryCount < MAX_RETRY_ATTEMPTS
    THEN [a EXCEPT !.timers = @ \cup {[fn |-> fn,
                                      retryCount |-> retryCount + 1,
                                      delay |-> RetryDelay(retryCount)]},
                   !.retry[fn].delays = Append(@, RetryDelay(retryCount))]
    ELSE [a EXCEPT !.retry[fn].messages = @ + 1]

\* the player as updatePlayerState reads it from a body of GET /player/{id}
ServerPlayer(playerData) ==
    [position |-> [x |-> playerData.CurrentTile.XPos,
                   y |-> playerData.CurrentTile.YPos],
     direction |-> playerData.Direction, alive |-> playerData.Alive]

(* updatePlayerData, updateGameConfig, updateSurroundingsData: the rest of *)
(* the try block once the client's method has settled                      *)
UpdateSettled(a, fn, retryCount, outcome) ==
    IF ~outcome.ok THEN UpdateCatch(a, fn, retryCount)
    ELSE LET data == outcome.value[1]
         IN  CASE fn = "updatePlayerData" ->
                    IF data.wellFormed
                    THEN updateTileStates(
                             updatePlayerState(a, ServerPlayer(data)))
                    ELSE UpdateCatch(a, fn, retryCount)
               [] fn = "updateGameConfig" -> updateGameState(a, data)
               [] OTHER ->
                    IF data.wellFormed
                    THEN [a EXCEPT !.tiles = Some(data)]
                    ELSE UpdateCatch(a, fn, retryCount)

(* updatePlayerData, updateGameConfig, updateSurroundingsData up to the    *)
(* await of the client's method                                            *)
UpdateCall(s, fn, retryCount) ==
    IF ~s.app.gameClient
       \/ (fn # "updateGameConfig" /\ Falsy(s.app.currentPlayerId))
    THEN s
    ELSE LET caller == [fn |-> fn, retryCount |-> retryCount,
                        tileId |-> << >>]
             s1 == [s EXCEPT !.app.retry[fn].attempts = Append(@, retryCount)]
         IN  CASE fn = "updatePlayerData" ->
                    getPlayer(s1, [NewTask("getPlayer",
                                       s.app.currentPlayerId, Undefined,
                                       Undefined, FALSE)
                                   EXCEPT !.caller = caller])
               [] fn = "updateGameConfig" ->
                    getGameState(s1, [NewTask("getGameState", Undefined,
                                          Undefined, Undefined, FALSE)
                                      EXCEPT !.caller = caller])
               [] OTHER ->
                    getPlayerSurroundings(s1,
                        [NewTask("getPlayerSurroundings",
                             s.app.currentPlayerId, Undefined, Undefined,
                             FALSE)
                         EXCEPT !.caller = caller])

(* startGame, the catch block: dispose() resets the client (the            *)
(* application registers no listener and queues no request)                *)
StartGameCatch(s) ==
    LET stopped == stopPolling(s.pollingTimer, s.intervals)
    IN  [s EXCEPT !.app.overlay = TRUE,
                  !.app.gameClient = FALSE,
                  !.pollingTimer = stopped.timer,
                  !.intervals = stopped.armed,
                  !.health = healthyConnection,
                  !.out = Append(@, [k |-> "disposed",
                                     timer |-> s.pollingTimer,
                                     listeners |-> << >>,
                                     health |-> s.health])]

(* startGame after initializeGameState: polling starts *)
StartGameDone(s) ==
    LET s1 == startPolling(s, s.app.currentPlayerId)
    IN  [s1 EXCEPT !.app.connected = TRUE]

(* initializeGameState: the three updates start; Promise.allSettled *)
initializeGameState(s) ==
    LET s1 == [s EXCEPT !.app.initPending = 3]
        s2 == UpdateCall(s1, "updatePlayerData", 0)
        s3 == UpdateCall(s2, "updateSurroundingsData", 0)
    IN  UpdateCall(s3, "updateGameConfig", 0)

\* the tiles the user can click: the five that move and a corner
ClickTargets == TileIds \cup {<<"N", "W">>}

(* handleTileClick up to the await of setPlayerDirection *)
handleTileClick(s, tileId) ==
    LET direction == DIRECTION_MAP(tileId)
    IN  IF Falsy(direction) \/ ~s.app.gameClient
           \/ Falsy(s.app.currentPlayerId)
        THEN s
        ELSE IF ~s.app.connected THEN s
        ELSE LET s1 == [s EXCEPT !.app.active = Str(tileId),
                                 !.app.clicked = Append(@, tileId)]
             IN  setPlayerDirection(s1,
                     [NewTask("setPlayerDirection", s.app.currentPlayerId,
                              direction, Undefined, FALSE)
                      EXCEPT !.caller = [fn |-> "handleTileClick",
                                         retryCount |-> 0,
                                         tileId |-> tileId]])

\* a method of the client called by the application has settled: the
\* function that awaits it goes on
AppResume(s, t, outcome) ==
    CASE t.caller.fn = "startGame" /\ t.op = "getGameState" ->
            \* ping() resolved to outcome.ok
            IF outcome.ok
            THEN addPlayer(s, [NewTask("addPlayer", t.playerId, Undefined,
                                       Undefined, FALSE)
                               EXCEPT !.caller = t.caller])
            ELSE StartGameCatch(s)
      [] t.caller.fn = "startGame" /\ t.op = "addPlayer" ->
            IF outcome.ok
            THEN initializeGameState(
                     [s EXCEPT !.app.currentPlayerId = outcome.value[1]])
            ELSE StartGameCatch(s)
      [] OTHER ->
            LET s1 == [s EXCEPT !.app = UpdateSettled(@, t.caller.fn,
                                            t.caller.retryCount, outcome)]
            IN  IF t.caller.retryCount = 0
                THEN IF s1.app.initPending = 1
                     THEN StartGameDone([s1 EXCEPT !.app.initPending = 0])
                     ELSE [s1 EXCEPT !.app.initPending = @ - 1]
                ELSE s1
-----------------------------------------------------------------------------
(* A settled request resumes the operation that awaits it *)

Resume(s, r, rq, outcome) ==
    LET owners == { t \in s.tasks : r \in t.wait }
    IN  IF owners = {} THEN s
        ELSE LET t0 == CHOOSE t \in owners : TRUE
                 t == [t0 EXCEPT !.wait = @ \ {r}]
                 s0 == [s EXCEPT !.tasks = @ \ {t0}]
             IN  CASE t0.pc = "ui_state" -> OnPlayerState(s0, t, rq, outcome)
                   [] t0.pc = "ui_config" -> OnGameState(s0, t, outcome)
                   [] t0.pc = "direction" ->
                         IF outcome.ok THEN AfterDirection(s0, t)
                         ELSE OpFail(s0, t, outcome.error)
                   [] t0.pc = "card" ->
                         IF outcome.ok THEN AfterCard(s0, t)
                         ELSE OpFail(s0, t, outcome.error)
                   [] t0.pc = "events" -> OnEvents(s0, t, outcome)
                   [] t0.caller.fn # "none" -> AppResume(s0, t, outcome)
                   [] OTHER -> Return(s0, t, outcome)

Remove(rs, r) == [q \in DOMAIN rs \ {r} |-> rs[q]]

\* a catch block that takes an abort for any other failure
ThrownAbortUnseen(error) ==
    IF error.name = "GommoError" THEN error ELSE GommoError(0)

(* GommoClient._request, the catch block: the error it throws *)
Thrown(error) ==
    IF error.name = "AbortError" THEN GommoError(408)
    ELSE IF error.name = "GommoError" THEN error
    ELSE GommoError(0)

(* GommoClient._request, the catch block: the request r rejects *)
RequestCatch(s, r, error, cause) ==
    LET rq == s.reqs[r]
        thrown == Thrown(error)
        s1 == [s EXCEPT
                 !.reqs = Remove(@, r),
                 !.health = _updateConnectionHealth(@, FALSE, 0),
                 !.out = @ \o << [k |-> "clearTimeout", id |-> r],
                                 [k |-> "settle", id |-> r, ok |-> FALSE,
                                  error |-> thrown, cause |-> cause,
                                  status |-> rq.status, value |-> Null] >>]
    IN  Resume(s1, r, rq, Rejected(thrown))

(* GommoClient._request: the fetch resolved with a response *)
FetchResponse(s, r, status, now) ==
    LET ok == status \in 200..299
    IN  [s EXCEPT
           !.reqs[r] = [@ EXCEPT !.timer = FALSE, !.status = status,
                                 !.pc = IF ok THEN "body" ELSE "errorText"],
           !.health = _updateConnectionHealth(@, ok, now),
           !.out = Append(@, [k |-> "clearTimeout", id |-> r])]

(* GommoClient._request: the body of an OK response was read *)
RequestReturn(s, r, data) ==
    LET rq == s.reqs[r]
        s1 == [s EXCEPT
                 !.reqs = Remove(@, r),
                 !.out = Append(@, [k |-> "settle", id |-> r, ok |-> TRUE,
                                    error |-> TypeError, cause |-> "ok",
                                    status |-> rq.status,
                                    value |-> Some(data)])]
    IN  Resume(s1, r, rq, Resolved(Some(data)))
-----------------------------------------------------------------------------
(* The environment: the server and the clock *)

\* the events of the most recent `turns` turns, oldest first
Window(turns) ==
    LET recent == SelectSeq(server.log,
                            LAMBDA e : e.turn > server.turn - turns)
    IN  [i \in 1..Len(recent) |-> recent[i].id]

\* the bodies an OK response to a request of this path can carry
\* (for the events of a player, the `data` member getPlayerEvents reads)
ResponseData(path) ==
    CASE path.res = "config" -> GameData
      [] path.sub = "" -> PlayerData \cup {MalformedPlayer}
      [] path.sub = "surroundings" -> SurroundingsData
      [] path.sub = "events" ->
            LET w == Window(IF path.turns = 0 THEN 5 ELSE path.turns)
            IN  { [events |-> w, count |-> Len(w)] }
      [] OTHER -> { [text |-> "OK"] }

\* the bodies an OK response to the request rq can carry: POST /player/{name}
\* answers with the new player's id
ResponseBody(rq) ==
    IF rq.method = "POST" THEN { Str(<<"i", "d", "1">>) }
    ELSE ResponseData(rq.path)

\* Date.now() does not run backwards
Clock(now) ==
    IF _connectionHealth.lastSuccessTime = Null THEN TRUE
    ELSE now >= _connectionHealth.lastSuccessTime[1]

\* the requests task t may still send, at most
Remaining(t) ==
    LET update == IF t.updateState THEN 3 ELSE 0
    IN  CASE t.op = "executeTurn" ->
                (CASE t.pc = "ui_state" ->
                        IF t.before = Null THEN 6 ELSE 1
                   [] t.pc = "ui_config" -> IF t.before = Null THEN 5 ELSE 0
                   [] t.pc = "direction" -> 4
                   [] OTHER -> 3)
          [] t.pc = "ui_state" -> 1
          [] t.pc \in {"direction", "card"} -> update
          [] OTHER -> 0

RECURSIVE Pending(_)
Pending(ts) ==
    IF ts = {} THEN 0
    ELSE LET t == CHOOSE x \in ts : TRUE
         IN  Remaining(t) + Pending(ts \ {t})

\* an operation that sends up to `need` requests may start
MayStart(need, limit) ==
    /\ Cardinality(tasks) < MaxTasks
    /\ _requestId + Pending(tasks) + need <= limit

others == <<fixed, _eventListeners, _requestQueue, onStateChange, onError,
            server>>

-----------------------------------------------------------------------------
(* Network events *)

\* the server's response to request r arrives: fetch resolves
FetchResolve(r) ==
    /\ reqs[r].pc = "fetch"
    /\ \E status \in {200} \cup HttpErrorStatuses, now \in Times :
          /\ Clock(now)
          /\ Commit(FetchResponse(Cur, r, status, now))
    /\ UNCHANGED others

\* the connection fails: fetch rejects
FetchReject(r) ==
    /\ reqs[r].pc = "fetch"
    /\ Commit(RequestCatch(Cur, r, TypeError, "network"))
    /\ UNCHANGED others

\* the abort timer of request r fires: controller.abort() rejects the
\* pending fetch or body read with an AbortError
AbortTimer(r) ==
    /\ reqs[r].timer
    /\ Commit(RequestCatch(Cur, r, AbortError, "timeout"))
    /\ UNCHANGED others

\* the body of an OK response has been read
BodyRead(r) ==
    /\ reqs[r].pc = "body"
    /\ \E data \in ResponseBody(reqs[r]) :
          Commit(RequestReturn(Cur, r, data))
    /\ UNCHANGED others

\* the text of a non-OK response has been read: the GommoError is thrown
ErrorTextRead(r) ==
    /\ reqs[r].pc = "errorText"
    /\ Commit(RequestCatch(Cur, r, GommoError(reqs[r].status), "http"))
    /\ UNCHANGED others

\* reading the body fails
BodyReadError(r) ==
    /\ reqs[r].pc \in {"body", "errorText"}
    /\ Commit(RequestCatch(Cur, r, TypeError, "body"))
    /\ UNCHANGED others

-----------------------------------------------------------------------------
(* Calls of the application *)

CallSetPlayerDirection ==
    /\ MayStart(1, MaxRequests)
    /\ \E playerId \in PlayerIdInputs, direction \in DirectionInputs :
          Commit(setPlayerDirection(Cur,
                    NewTask("setPlayerDirection", playerId, direction,
                            Undefined, FALSE)))
    /\ UNCHANGED others

CallPlayCard ==
    /\ MayStart(1, MaxRequests)
    /\ \E playerId \in PlayerIdInputs, cardType \in CardInputs :
          Commit(playCard(Cur,
                    NewTask("playCard", playerId, Undefined, cardType, FALSE)))
    /\ UNCHANGED others

CallMovePlayer ==
    /\ MayStart(4, MaxRequests)
    /\ \E playerId \in PlayerIdInputs, direction \in DirectionInputs,
           updateState \in BOOLEAN :
          Commit(movePlayer(Cur,
                    NewTask("movePlayer", playerId, direction, Undefined,
                            updateState)))
    /\ UNCHANGED others

CallConsumeCard ==
    /\ MayStart(4, MaxRequests)
    /\ \E playerId \in PlayerIdInputs, cardType \in CardInputs,
           updateState \in BOOLEAN :
          Commit(consumeCard(Cur,
                    NewTask("consumeCard", playerId, Undefined, cardType,
                            updateState)))
    /\ UNCHANGED others

CallGetGameState ==
    /\ MayStart(1, MaxRequests)
    /\ Commit(getGameState(Cur,
                 NewTask("getGameState", Undefined, Undefined, Undefined,
                         FALSE)))
    /\ UNCHANGED others

CallAddPlayer ==
    /\ MayStart(1, MaxRequests)
    /\ \E playerName \in PlayerIdInputs :
          Commit(addPlayer(Cur,
                    NewTask("addPlayer", playerName, Undefined, Undefined,
                            FALSE)))
    /\ UNCHANGED others

CallGetPlayer ==
    /\ MayStart(1, MaxRequests)
    /\ \E playerId \in PlayerIdInputs :
          Commit(getPlayer(Cur,
                    NewTask("getPlayer", playerId, Undefined, Undefined,
                            FALSE)))
    /\ UNCHANGED others

CallGetPlayerSurroundings ==
    /\ MayStart(1, MaxRequests)
    /\ \E playerId \in PlayerIdInputs :
          Commit(getPlayerSurroundings(Cur,
                    NewTask("getPlayerSurroundings", playerId, Undefined,
                            Undefined, FALSE)))
    /\ UNCHANGED others

\* options.turns of getPlayerEvents: 0 when absent
EventTurns == {0, 1}
EventTypes == {"card_usage"}

(* GommoClient.getPlayerEvents, called by the application *)
CallGetPlayerEvents ==
    /\ MayStart(1, MaxRequests)
    /\ \E turns \in EventTurns :
          Commit(getPlayerEvents(Cur,
                    NewTask("getPlayerEvents", Str(<<"p", "1">>), Undefined,
                            Undefined, FALSE), turns))
    /\ UNCHANGED others

(* GommoClient.getPlayerEventsByType, called by the application *)
CallGetPlayerEventsByType ==
    /\ MayStart(1, MaxRequests)
    /\ \E turns \in EventTurns, eventType \in EventTypes :
          Commit(getPlayerEventsByType(Cur,
                    NewTask("getPlayerEventsByType", Str(<<"p", "1">>),
                            Undefined, Undefined, FALSE), eventType, turns))
    /\ UNCHANGED others

(* GommoClient.executeTurn up to its first await *)
CallExecuteTurn ==
    /\ MayStart(8, MaxTurnRequests)
    /\ \E playerId \in PlayerIdInputs, direction \in DirectionInputs,
           cardType \in CardInputs :
          Commit(getUIPlayerState(Cur,
                    NewTask("executeTurn", playerId, direction, cardType,
                            FALSE)))
    /\ UNCHANGED others
-----------------------------------------------------------------------------
(* The application's events *)

\* the base URLs a client is constructed with
ServerUrl == <<"h">>
BaseUrlInputs == {<<"h">>, <<"h", "/">>, <<"h", "/", "/">>}

\* a replace that removes every trailing slash
RECURSIVE RemoveTrailingSlashes(_)
RemoveTrailingSlashes(url) ==
    IF Len(url) > 0 /\ url[Len(url)] = "/"
    THEN RemoveTrailingSlashes(SubSeq(url, 1, Len(url) - 1)) ELSE url

\* String.prototype.replace(/\/$/, ''): one trailing slash is removed
RemoveTrailingSlash(url) ==
    IF Len(url) > 0 /\ url[Len(url)] = "/"
    THEN SubSeq(url, 1, Len(url) - 1) ELSE url


\* what the user has typed into the name input
NameInputs == {<<"p", " ", "1">>, << >>}

(* startGame: the start button of the overlay is clicked *)
StartGame ==
    /\ app.overlay
    /\ app.games < MaxGames
    /\ \E name \in NameInputs :
          IF name = << >>
          THEN \* validatePlayerName fails: the catch block, without a client
               /\ Commit([Cur EXCEPT !.app.overlay = TRUE,
                                     !.app.games = @ + 1,
                                     !.app.gameClient = FALSE])
               /\ UNCHANGED others
          ELSE LET made == [Cur EXCEPT
                               !.rid = 0, !.health = healthyConnection,
                               !.reqs = << >>, !.tasks = {}, !.last = Null,
                               !.pollingTimer = Null,
                               !.app.overlay = FALSE,
                               !.app.games = @ + 1,
                               !.app.gameClient = TRUE]
               IN  /\ Commit(getGameState(made,
                               [NewTask("getGameState", Str(name), Undefined,
                                        Undefined, FALSE)
                                EXCEPT !.caller = [fn |-> "startGame",
                                                   retryCount |-> 0,
                                                   tileId |-> << >>]]))
                   /\ args' = [baseUrl |-> ServerUrl, enablePolling |-> TRUE,
                               onStateChange |-> TRUE, onError |-> TRUE]
                   /\ baseUrl' = RemoveTrailingSlash(ServerUrl)
                   /\ enablePolling' = TRUE
                   /\ onStateChange' = TRUE
                   /\ onError' = TRUE
                   /\ _eventListeners' = << >>
                   /\ _requestQueue' = {}
                   /\ UNCHANGED server

(* handleTileClick: a tile is clicked *)
HandleTileClick ==
    /\ MayStart(1, MaxAppRequests)
    /\ Len(app.clicked) < MaxClicks
    /\ \E tileId \in ClickTargets : Commit(handleTileClick(Cur, tileId))
    /\ UNCHANGED others

\* a timer set by an update's catch block fires: the update runs again
RetryTimeout ==
    /\ MayStart(1, MaxAppRequests)
    /\ \E timer \in app.timers :
          Commit(UpdateCall([Cur EXCEPT !.app.timers = @ \ {timer}],
                            timer.fn, timer.retryCount))
    /\ UNCHANGED others

\* the zombies around the player move
ServerZombies ==
    /\ server' = [server EXCEPT !.zombies = 1 - @]
    /\ out' = << >>
    /\ UNCHANGED <<fixed, app, _requestId, _connectionHealth, _pollingTimer,
                   _lastPlayerState, _eventListeners, _requestQueue,
                   onStateChange, onError, reqs, tasks, intervals, timerSeq,
                   sub, hist>>
-----------------------------------------------------------------------------
(* Polling *)

ListenerEvents == {"stateChange", "error"}
Callbacks == {"f", "g"}

(* GommoClient.startPolling, called by the application *)
StartPolling ==
    /\ timerSeq < MaxTimers
    /\ \E playerId \in PlayerIdInputs :
          Commit(startPolling(Cur, playerId))
    /\ UNCHANGED others

StopPolling ==
    /\ _pollingTimer' = stopPolling(_pollingTimer, intervals).timer
    /\ intervals' = stopPolling(_pollingTimer, intervals).armed
    /\ out' = << >>
    /\ UNCHANGED <<fixed, app, _requestId, _connectionHealth, _lastPlayerState,
                   _eventListeners, _requestQueue, onStateChange, onError,
                   reqs, tasks, timerSeq, sub, server, hist>>

\* the interval timer fires: the callback of startPolling runs
IntervalTick(limit) ==
    /\ MayStart(3, limit)
    /\ \E id \in DOMAIN intervals :
          Commit(_triggerStateUpdate(Cur,
                    NewTask("poll", intervals[id], Undefined, Undefined,
                            TRUE)))
    /\ UNCHANGED others

\* the same, when the interval is longer than an update takes
IntervalTickIdle(limit) ==
    /\ tasks = {}
    /\ reqs = << >>
    /\ IntervalTick(limit)

(* GommoClient.dispose *)
dispose ==
    /\ _pollingTimer' = stopPolling(_pollingTimer, intervals).timer
    /\ intervals' = stopPolling(_pollingTimer, intervals).armed
    /\ _eventListeners' = << >>
    /\ _requestQueue' = {}
    /\ _connectionHealth' = healthyConnection
    /\ out' = << [k |-> "disposed", timer |-> _pollingTimer,
                  listeners |-> _eventListeners,
                  health |-> _connectionHealth] >>
    /\ UNCHANGED <<fixed, app, _requestId, _lastPlayerState, onStateChange, onError,
                   reqs, tasks, timerSeq, sub, server, hist>>

RECURSIVE SumLen(_, _)
SumLen(f, keys) ==
    IF keys = {} THEN 0
    ELSE LET key == CHOOSE x \in keys : TRUE
         IN  Len(f[key]) + SumLen(f, keys \ {key})

(* GommoClient.addEventListener *)
addEventListener ==
    /\ SumLen(_eventListeners, DOMAIN _eventListeners) < MaxListeners
    /\ \E event \in ListenerEvents, callback \in Callbacks :
          _eventListeners' =
              [e \in DOMAIN _eventListeners \cup {event} |->
                  IF e = event
                  THEN Append(IF event \in DOMAIN _eventListeners
                              THEN _eventListeners[event] ELSE << >>,
                              callback)
                  ELSE _eventListeners[e]]
    /\ out' = << >>
    /\ UNCHANGED <<fixed, app, _requestId, _connectionHealth, _pollingTimer,
                   _lastPlayerState, _requestQueue, onStateChange, onError,
                   reqs, tasks, intervals, timerSeq, sub, server, hist>>

\* Array.prototype.indexOf, 1-based; 0 when absent
IndexOf(seq, x) ==
    IF \E i \in 1..Len(seq) : seq[i] = x
    THEN CHOOSE i \in 1..Len(seq) :
            seq[i] = x /\ \A j \in 1..(i - 1) : seq[j] # x
    ELSE 0

\* Array.prototype.splice(index, 1)
Splice(seq, index) ==
    SubSeq(seq, 1, index - 1) \o SubSeq(seq, index + 1, Len(seq))

(* GommoClient.removeEventListener *)
removeEventListener ==
    /\ \E event \in ListenerEvents, callback \in Callbacks :
          /\ event \in DOMAIN _eventListeners
          /\ IndexOf(_eventListeners[event], callback) > 0
          /\ _eventListeners' =
                [_eventListeners EXCEPT ![event] =
                    Splice(@, IndexOf(@, callback))]
    /\ out' = << >>
    /\ UNCHANGED <<fixed, app, _requestId, _connectionHealth, _pollingTimer,
                   _lastPlayerState, _requestQueue, onStateChange, onError,
                   reqs, tasks, intervals, timerSeq, sub, server, hist>>

-----------------------------------------------------------------------------
(* The event subscription *)

TurnsOptions == {0, 2}      \* options.turns: 0 when absent

(* GommoClient.subscribeToPlayerEvents *)
subscribeToPlayerEvents ==
    /\ ~sub.created
    /\ MayStart(1, MaxRequests)
    /\ \E playerId \in {Str(<<"p", " ", "1">>)}, turns \in TurnsOptions :
          Commit(pollEvents(
              [Cur EXCEPT !.sub =
                  [created |-> TRUE, isActive |-> TRUE, lastEventCount |-> 0,
                   timeout |-> FALSE, playerId |-> playerId,
                   turns |-> IF turns = 0 THEN 1 ELSE turns]]))
    /\ UNCHANGED others

\* the function subscribeToPlayerEvents returned is called
Unsubscribe ==
    /\ sub.created
    /\ sub.isActive
    /\ sub' = [sub EXCEPT !.isActive = FALSE]
    /\ out' = << >>
    /\ UNCHANGED <<fixed, app, _requestId, _connectionHealth, _pollingTimer,
                   _lastPlayerState, _eventListeners, _requestQueue,
                   onStateChange, onError, reqs, tasks, intervals, timerSeq,
                   server, hist>>

\* the timer set by setTimeout(pollEvents, interval) fires
PollEventsTimeout ==
    /\ sub.timeout
    /\ sub.isActive => MayStart(1, MaxRequests)
    /\ Commit(pollEvents([Cur EXCEPT !.sub.timeout = FALSE]))
    /\ UNCHANGED others

\* the server records an event of the current turn
ServerEvent ==
    /\ Len(server.log) < MaxEvents
    /\ server' = [server EXCEPT
                     !.log = Append(@, [id |-> Len(@) + 1,
                                        turn |-> server.turn])]
    /\ out' = << >>
    /\ UNCHANGED <<fixed, app, _requestId, _connectionHealth, _pollingTimer,
                   _lastPlayerState, _eventListeners, _requestQueue,
                   onStateChange, onError, reqs, tasks, intervals, timerSeq,
                   sub, hist>>

\* the server ends the turn
ServerTurn ==
    /\ server.turn < MaxServerTurns
    /\ server' = [server EXCEPT !.turn = @ + 1]
    /\ out' = << >>
    /\ UNCHANGED <<fixed, app, _requestId, _connectionHealth, _pollingTimer,
                   _lastPlayerState, _eventListeners, _requestQueue,
                   onStateChange, onError, reqs, tasks, intervals, timerSeq,
                   sub, hist>>

-----------------------------------------------------------------------------
(* GommoClient.constructor *)
\* the functions of the application that retry
UpdateFunctions ==
    {"updatePlayerData", "updateGameConfig", "updateSurroundingsData"}

\* the application's variables when the page has loaded: the start overlay
\* is shown, there is no client and no player id, `state` has its initial
\* value, no tile is active and the tiles display nothing fetched
AppInit ==
    [overlay |-> TRUE, games |-> 0, clicked |-> << >>, moved |-> << >>, gameClient |-> FALSE, currentPlayerId |-> Undefined,
     connected |-> FALSE, initPending |-> 0,
     player |-> [position |-> [x |-> 0, y |-> 0],
                 direction |-> <<"S", "t", "a", "y">>, alive |-> FALSE],
     hasWon |-> FALSE, active |-> Undefined, tiles |-> Null, timers |-> {},
     retry |-> [fn \in UpdateFunctions |->
                   [attempts |-> << >>, delays |-> << >>, messages |-> 0]]]

(* GommoClient.constructor, called with the arguments a *)
Constructed(a) ==
    /\ args = a
    /\ baseUrl = RemoveTrailingSlash(a.baseUrl)
    /\ enablePolling = a.enablePolling
    /\ app = AppInit
    /\ onStateChange = a.onStateChange
    /\ onError = a.onError
    /\ _requestId = 0
    /\ _connectionHealth = healthyConnection
    /\ _pollingTimer = Null
    /\ _lastPlayerState = Null
    /\ _eventListeners = << >>
    /\ _requestQueue = {}
    /\ reqs = << >>
    /\ tasks = {}
    /\ intervals = << >>
    /\ timerSeq = 0
    /\ sub = NoSub
    /\ server = [turn |-> 0, log |-> << >>, zombies |-> 0]
    /\ out = << >>
    /\ hist = [applied |-> FALSE, deaths |-> 0, aliveSince |-> FALSE,
               latestPoll |-> 0, reported |-> {},
               delivered |-> [e \in 1..MaxEvents |-> 0]]

\* new GommoClient(ServerUrl, {onStateChange, onError}): either callback
\* may be left out
Init ==
    \E callbacks \in [onStateChange : BOOLEAN, onError : BOOLEAN] :
        Constructed([baseUrl |-> ServerUrl, enablePolling |-> FALSE,
                     onStateChange |-> callbacks.onStateChange,
                     onError |-> callbacks.onError])

\* new GommoClient(url, {enablePolling, onStateChange, onError})
InitOptions ==
    \E url \in BaseUrlInputs, polling \in BOOLEAN :
        Constructed([baseUrl |-> url, enablePolling |-> polling,
                     onStateChange |-> TRUE, onError |-> TRUE])

\* a client that polls
Next ==
    \/ StartPolling
    \/ StopPolling
    \/ IntervalTick(MaxPollRequests)
    \/ \E r \in DOMAIN reqs : FetchResolve(r)
    \/ \E r \in DOMAIN reqs : FetchReject(r)
    \/ \E r \in DOMAIN reqs : AbortTimer(r)
    \/ \E r \in DOMAIN reqs : BodyRead(r)
    \/ \E r \in DOMAIN reqs : ErrorTextRead(r)
    \/ \E r \in DOMAIN reqs : BodyReadError(r)

Spec == Init /\ [][Next]_vars

\* a client that polls at an interval longer than an update takes
NextSeq ==
    \/ StartPolling
    \/ IntervalTickIdle(MaxSeqRequests)
    \/ \E r \in DOMAIN reqs : FetchResolve(r)
    \/ \E r \in DOMAIN reqs : FetchReject(r)
    \/ \E r \in DOMAIN reqs : AbortTimer(r)
    \/ \E r \in DOMAIN reqs : BodyRead(r)
    \/ \E r \in DOMAIN reqs : ErrorTextRead(r)
    \/ \E r \in DOMAIN reqs : BodyReadError(r)

SpecSeq == Init /\ [][NextSeq]_vars

\* a client that polls, registers listeners and is disposed
NextLife ==
    \/ StartPolling
    \/ StopPolling
    \/ IntervalTick(MaxRequests)
    \/ dispose
    \/ addEventListener
    \/ removeEventListener
    \/ \E r \in DOMAIN reqs : FetchResolve(r)
    \/ \E r \in DOMAIN reqs : FetchReject(r)
    \/ \E r \in DOMAIN reqs : AbortTimer(r)
    \/ \E r \in DOMAIN reqs : BodyRead(r)
    \/ \E r \in DOMAIN reqs : ErrorTextRead(r)
    \/ \E r \in DOMAIN reqs : BodyReadError(r)

SpecLife == Init /\ [][NextLife]_vars

\* a client whose operations the application calls
NextApi ==
    \/ CallSetPlayerDirection
    \/ CallPlayCard
    \/ CallMovePlayer
    \/ CallConsumeCard
    \/ \E r \in DOMAIN reqs : FetchResolve(r)
    \/ \E r \in DOMAIN reqs : FetchReject(r)
    \/ \E r \in DOMAIN reqs : AbortTimer(r)
    \/ \E r \in DOMAIN reqs : BodyRead(r)
    \/ \E r \in DOMAIN reqs : ErrorTextRead(r)
    \/ \E r \in DOMAIN reqs : BodyReadError(r)

SpecApi == Init /\ [][NextApi]_vars

\* a client that executes turns
NextTurn ==
    \/ CallExecuteTurn
    \/ \E r \in DOMAIN reqs : FetchResolve(r)
    \/ \E r \in DOMAIN reqs : FetchReject(r)
    \/ \E r \in DOMAIN reqs : AbortTimer(r)
    \/ \E r \in DOMAIN reqs : BodyRead(r)
    \/ \E r \in DOMAIN reqs : ErrorTextRead(r)
    \/ \E r \in DOMAIN reqs : BodyReadError(r)

SpecTurn == Init /\ [][NextTurn]_vars

\* a client with an event subscription
NextSub ==
    \/ subscribeToPlayerEvents
    \/ Unsubscribe
    \/ PollEventsTimeout
    \/ ServerEvent
    \/ ServerTurn
    \/ \E r \in DOMAIN reqs : FetchResolve(r)
    \/ \E r \in DOMAIN reqs : FetchReject(r)
    \/ \E r \in DOMAIN reqs : AbortTimer(r)
    \/ \E r \in DOMAIN reqs : BodyRead(r)
    \/ \E r \in DOMAIN reqs : ErrorTextRead(r)
    \/ \E r \in DOMAIN reqs : BodyReadError(r)

SpecSub == Init /\ [][NextSub]_vars

\* a client whose events are asked for
NextEvents ==
    \/ MayStart(1, MaxOptionRequests) /\ CallGetPlayerEvents
    \/ MayStart(1, MaxOptionRequests) /\ CallGetPlayerEventsByType
    \/ ServerEvent
    \/ ServerTurn
    \/ \E r \in DOMAIN reqs : FetchResolve(r)
    \/ \E r \in DOMAIN reqs : FetchReject(r)
    \/ \E r \in DOMAIN reqs : AbortTimer(r)
    \/ \E r \in DOMAIN reqs : BodyRead(r)
    \/ \E r \in DOMAIN reqs : ErrorTextRead(r)
    \/ \E r \in DOMAIN reqs : BodyReadError(r)

SpecEvents == Init /\ [][NextEvents]_vars

\* the application starts a game; its updates fail and are retried
NextRetry ==
    \/ StartGame
    \/ RetryTimeout
    \/ \E r \in DOMAIN reqs : FetchResolve(r)
    \/ \E r \in DOMAIN reqs : FetchReject(r)
    \/ \E r \in DOMAIN reqs : AbortTimer(r)
    \/ \E r \in DOMAIN reqs : BodyRead(r)
    \/ \E r \in DOMAIN reqs : ErrorTextRead(r)
    \/ \E r \in DOMAIN reqs : BodyReadError(r)

SpecRetry == Init /\ [][NextRetry]_vars

\* the application starts a game and is polled while the zombies move
NextTiles ==
    \/ StartGame
    \/ RetryTimeout
    \/ ServerZombies
    \/ IntervalTickIdle(MaxAppRequests)
    \/ \E r \in DOMAIN reqs : FetchResolve(r)
    \/ \E r \in DOMAIN reqs : FetchReject(r)
    \/ \E r \in DOMAIN reqs : AbortTimer(r)
    \/ \E r \in DOMAIN reqs : BodyRead(r)
    \/ \E r \in DOMAIN reqs : ErrorTextRead(r)
    \/ \E r \in DOMAIN reqs : BodyReadError(r)

SpecTiles == Init /\ [][NextTiles]_vars

\* the application starts a game and the user clicks tiles
NextClick ==
    \/ StartGame
    \/ HandleTileClick
    \/ \E r \in DOMAIN reqs : FetchResolve(r)
    \/ \E r \in DOMAIN reqs : FetchReject(r)
    \/ \E r \in DOMAIN reqs : AbortTimer(r)
    \/ \E r \in DOMAIN reqs : BodyRead(r)
    \/ \E r \in DOMAIN reqs : ErrorTextRead(r)
    \/ \E r \in DOMAIN reqs : BodyReadError(r)

SpecClick == Init /\ [][NextClick]_vars

\* clients constructed with different options, whose basic operations are
\* called
NextOptions ==
    \/ MayStart(1, MaxOptionRequests) /\ CallGetGameState
    \/ MayStart(1, MaxOptionRequests) /\ CallAddPlayer
    \/ MayStart(1, MaxOptionRequests) /\ CallGetPlayer
    \/ MayStart(1, MaxOptionRequests) /\ CallGetPlayerSurroundings
    \/ MayStart(1, MaxOptionRequests) /\ CallSetPlayerDirection
    \/ MayStart(1, MaxOptionRequests) /\ CallPlayCard
    \/ \E r \in DOMAIN reqs : FetchResolve(r)
    \/ \E r \in DOMAIN reqs : FetchReject(r)
    \/ \E r \in DOMAIN reqs : AbortTimer(r)
    \/ \E r \in DOMAIN reqs : BodyRead(r)
    \/ \E r \in DOMAIN reqs : ErrorTextRead(r)
    \/ \E r \in DOMAIN reqs : BodyReadError(r)

SpecOptions == InitOptions /\ [][NextOptions]_vars

\* clients constructed with different options, which poll when startPolling
\* has been called
SpecPolling == InitOptions /\ [][NextSeq]_vars
-----------------------------------------------------------------------------
(* Properties *)

\* the places of the records of kind k in the outputs o of a macrotask
Idx(o, k) == { i \in 1..Len(o) : o[i].k = k }
\* the places where the event type is emitted
EmitIdx(o, type) == { i \in Idx(o, "emit") : o[i].type = type }

C7_Directions ==
    { <<"n","o","r","t","h">>, <<"e","a","s","t">>, <<"s","o","u","t","h">>,
      <<"w","e","s","t">>, <<"s","t","a","y">> }
C7_Cards ==
    { <<"f","o","o","d">>, <<"w","o","o","d">>, <<"w","e","a","p","o","n">>,
      <<"d","i","c","e">>, <<"r","e","s","e","a","r","c","h">>,
      <<"n","o","n","e">> }
C7_Lower(v) ==
    CASE v = <<"N","o","r","t","h">> -> <<"n","o","r","t","h">>
      [] v = <<"F","O","O","D">> -> <<"f","o","o","d">>
      [] OTHER -> v

\* the argument and the valid values of a setPlayerDirection / playCard call
C7_Arg(t) == IF t.op = "setPlayerDirection" THEN t.direction ELSE t.cardType
C7_Valid(t) == IF t.op = "setPlayerDirection" THEN C7_Directions ELSE C7_Cards
C7_Sub(t) == IF t.op = "setPlayerDirection" THEN "direction" ELSE "play"

\* C7: setPlayerDirection and playCard reject with GommoError 400 when the
\* player id is missing or the lower-cased direction / card type is not a
\* valid one, without sending a request and without touching the connection
\* health; for a valid value one PUT is sent, carrying the lower-cased value.
C7_Step ==
    /\ \A i \in Idx(out', "return") :
          LET o == out'[i]
              t == o.task
              arg == C7_Arg(t)
          IN  (/\ t.op \in {"setPlayerDirection", "playCard"}
               /\ \/ Falsy(t.playerId)
                  \/ arg.t = "string" /\ C7_Lower(arg.v) \notin C7_Valid(t))
              => /\ ~o.ok
                 /\ o.error = GommoError(400)
                 /\ t.log = << >>
                 /\ Idx(out', "send") = {}
                 /\ reqs' = reqs
                 /\ _requestId' = _requestId
                 /\ _connectionHealth' = _connectionHealth
    /\ \A t \in tasks' :
          t.op \in {"setPlayerDirection", "playCard"} =>
            /\ ~Falsy(t.playerId)
            /\ C7_Arg(t).t = "string"
            /\ C7_Lower(C7_Arg(t).v) \in C7_Valid(t)
            /\ Len(t.log) = 1
            /\ t.log[1].method = "PUT"
            /\ t.log[1].path.sub = C7_Sub(t)
            /\ t.log[1].path.arg = C7_Lower(C7_Arg(t).v)
    /\ \A i \in Idx(out', "return") :
          LET t == out'[i].task
          IN  (/\ t.op \in {"setPlayerDirection", "playCard"}
               /\ ~Falsy(t.playerId)
               /\ C7_Arg(t).t = "string"
               /\ C7_Lower(C7_Arg(t).v) \in C7_Valid(t))
              => Len(t.log) = 1

C7_Validation == [][C7_Step]_vars

\* setPlayerDirection('p 1', 'up') was rejected with 400 while another
\* request was in flight, and a valid mixed-case direction has been sent
C7_Witness ==
    /\ \E i \in Idx(out, "return") :
          /\ out[i].task.op = "setPlayerDirection"
          /\ out[i].task.direction = Str(<<"u", "p">>)
          /\ ~Falsy(out[i].task.playerId)
          /\ out[i].error = GommoError(400)
    /\ \E t \in tasks :
          /\ t.op = "setPlayerDirection"
          /\ t.direction = Str(<<"N","o","r","t","h">>)
          /\ t.log[1].path.arg = <<"n","o","r","t","h">>

\* C9: consumeCard registers the card as the player's consume action: the
\* request it sends is PUT /player/{id}/consume/{card}, not .../play/{card}.
C9_ConsumeEndpoint ==
    \A t \in tasks :
        (t.op = "consumeCard" /\ t.log # << >>) =>
            /\ t.log[1].method = "PUT"
            /\ t.log[1].path.sub = "consume"
\* the poll p has ended by the next state: no task continues it
PollEnded(p) == \A t \in tasks' : t.log[1].id # p.log[1].id

\* C1: a poll whose state fetch fails emits exactly one 'error' event with
\* the error; the update resolves when the statusCode is 0 or 408 and
\* rethrows otherwise; a rethrown error is passed to onError (when there is
\* one), exactly once; and the interval timer stays armed.
C1_Step ==
    /\ \A p \in tasks, i \in Idx(out', "settle") :
          (/\ p.op = "poll"
           /\ out'[i].id \in p.wait
           /\ PollEnded(p)
           /\ EmitIdx(out', "stateChange") = {})
          => /\ Cardinality(EmitIdx(out', "error")) = 1
             /\ Cardinality(Idx(out', "update")) = 1
             /\ ~out'[i].ok =>
                   \A j \in EmitIdx(out', "error") :
                       out'[j].data = out'[i].error
    /\ \A j \in EmitIdx(out', "error"), u \in Idx(out', "update") :
          LET error == out'[j].data
              connection == error.statusCode \in {0, 408}
          IN  /\ out'[u].ok <=> connection
              /\ out'[u].task.op = "poll" =>
                    /\ Cardinality(Idx(out', "onError")) =
                          IF ~connection /\ onError THEN 1 ELSE 0
                    /\ \A e \in Idx(out', "onError") : out'[e].error = error
                    /\ _pollingTimer' = _pollingTimer
                    /\ intervals' = intervals

C1_FailedPoll == [][C1_Step]_vars

\* a poll timed out (408): the error was emitted, the update resolved, and
\* the interval is still armed
C1_Witness ==
    /\ \E j \in EmitIdx(out, "error") : out[j].data = GommoError(408)
    /\ \E u \in Idx(out, "update") : out[u].ok /\ out[u].task.op = "poll"
    /\ \E i \in Idx(out, "settle") : out[i].cause = "timeout"
    /\ _pollingTimer # Null
    /\ intervals # << >>

\* C2: an update whose state fetch succeeds (the last of its requests, the
\* game state, resolves) emits exactly one 'stateChange' with the fetched
\* state, caches that state and calls onStateChange (when there is one)
\* exactly once with it.
C2_Step ==
    \A p \in tasks, i \in Idx(out', "settle") :
        (/\ p.op = "poll"
         /\ p.pc = "ui_config"
         /\ out'[i].id \in p.wait
         /\ out'[i].ok)
        => /\ Cardinality(EmitIdx(out', "stateChange")) = 1
           /\ \A j \in EmitIdx(out', "stateChange") :
                 LET d == out'[j].data
                 IN  /\ d.player.alive = p.player[1].Alive
                     /\ d.player.position.x = p.player[1].CurrentTile.XPos
                     /\ d.player.position.y = p.player[1].CurrentTile.YPos
                     /\ d.gameState = out'[i].value[1]
                     /\ _lastPlayerState' = <<d>>
                     /\ \A c \in Idx(out', "onStateChange") :
                           out'[c].data = d /\ out'[c].type = "state"
           /\ Cardinality(Idx(out', "onStateChange")) =
                 IF onStateChange THEN 1 ELSE 0

C2_EveryUpdateNotifies == [][C2_Step]_vars

\* an update fetched the very state that was cached, and notified all the same
C2_Witness ==
    /\ onStateChange
    /\ \E u \in Idx(out, "update"), j \in EmitIdx(out, "stateChange"),
           c \in Idx(out, "onStateChange") :
          /\ out[u].ok
          /\ out[u].prev = <<out[j].data>>
          /\ out[c].data = out[j].data
          /\ _lastPlayerState = <<out[j].data>>

\* C3: when dispose() has returned the polling timer is stopped, the
\* listener map and the request queue are empty and the connection health
\* is reset.
C3_Disposed ==
    Idx(out, "disposed") # {} =>
        /\ _pollingTimer = Null
        /\ intervals = << >>
        /\ _eventListeners = << >>
        /\ _requestQueue = {}
        /\ _connectionHealth.consecutiveFailures = 0
        /\ _connectionHealth.lastSuccessTime = Null
        /\ _connectionHealth.isHealthy

\* a polling client with a listener and failed requests was disposed while
\* a request was in flight
C3_Witness ==
    /\ reqs # << >>
    /\ \E i \in Idx(out, "disposed") :
          /\ out[i].timer # Null
          /\ out[i].listeners # << >>
          /\ out[i].health.consecutiveFailures > 0

\* C10: an update emits 'playerDeath' exactly when the cached state has
\* alive true and the fetched state alive false; nothing else emits it; it
\* is not emitted by the first update; and since the previous emission an
\* update has fetched alive true.
C10_Step ==
    /\ EmitIdx(out', "stateChange") = {} => EmitIdx(out', "playerDeath") = {}
    /\ \A j \in EmitIdx(out', "stateChange") :
          /\ Cardinality(EmitIdx(out', "playerDeath")) <= 1
          /\ EmitIdx(out', "playerDeath") # {} <=>
                /\ _lastPlayerState # Null
                /\ _lastPlayerState[1].player.alive
                /\ ~out'[j].data.player.alive
    /\ EmitIdx(out', "playerDeath") # {} =>
          /\ hist.applied
          /\ hist.deaths > 0 => hist.aliveSince

C10_PlayerDeath == [][C10_Step]_vars

\* 'playerDeath' has been emitted for the second time
C10_Witness ==
    /\ EmitIdx(out, "playerDeath") # {}
    /\ hist.deaths = 2
\* what a logged request of a turn asks for
C8_Kind(e) == IF e.path.res = "config" THEN "config" ELSE e.path.sub

\* the requests of a complete turn: the before-state (player, surroundings,
\* game state), the direction, the card, the after-state
C8_Order == <<"", "surroundings", "config", "direction", "play",
              "", "surroundings", "config">>

\* the executeTurn calls pending in, or returned by, the next state
C8_Turns ==
    {t \in tasks' : t.op = "executeTurn"}
    \cup {out'[i].task : i \in {j \in Idx(out', "return") :
                                   out'[j].task.op = "executeTurn"}}

\* C8: executeTurn fetches the before-state, sets the direction, plays the
\* card and fetches the after-state, in that order, each step only after
\* the one before it has succeeded (so no card is sent unless the direction
\* request succeeded).  On success onStateChange (when there is one) is
\* called exactly once, with type 'turn_complete', and the promise resolves
\* with success true; on any failure onError (when there is one) is called
\* exactly once with the error, the promise rejects with it, and
\* onStateChange is not called.
C8_Step ==
    /\ \A t \in C8_Turns :
          /\ Len(t.log) <= 8
          /\ \A n \in 1..Len(t.log) : C8_Kind(t.log[n]) = C8_Order[n]
    /\ \A t \in C8_Turns, n \in {4, 5, 6} :
          \A i \in Idx(out', "send") :
              (Len(t.log) >= n /\ out'[i].id = t.log[n].id)
              => \E j \in Idx(out', "settle") :
                    /\ j < i
                    /\ out'[j].ok
                    /\ out'[j].id = t.log[n - 1].id
    /\ \A t \in tasks, i \in Idx(out', "settle") :
          (t.op = "executeTurn" /\ out'[i].id \in t.wait /\ ~out'[i].ok)
          => \E r \in Idx(out', "return") :
                /\ ~out'[r].ok
                /\ out'[r].error = out'[i].error
                /\ out'[r].task.log[1].id = t.log[1].id
    /\ \A r \in Idx(out', "return") :
          out'[r].task.op = "executeTurn" =>
              IF out'[r].ok
              THEN /\ Len(out'[r].task.log) = 8
                   /\ out'[r].value[1].success
                   /\ Idx(out', "onError") = {}
                   /\ Cardinality(Idx(out', "onStateChange")) =
                         IF onStateChange THEN 1 ELSE 0
                   /\ \A c \in Idx(out', "onStateChange") :
                         out'[c].type = "turn_complete"
              ELSE /\ Idx(out', "onStateChange") = {}
                   /\ Cardinality(Idx(out', "onError")) =
                         IF onError THEN 1 ELSE 0
                   /\ \A e \in Idx(out', "onError") :
                         out'[e].error = out'[r].error
    /\ Idx(out', "onStateChange") # {} =>
          \E r \in Idx(out', "return") : out'[r].ok

C8_ExecuteTurn == [][C8_Step]_vars

\* a turn has completed, and both callbacks are configured
C8_Witness ==
    /\ onStateChange
    /\ onError
    /\ \E r \in Idx(out, "return"), c \in Idx(out, "onStateChange") :
          /\ out[r].ok
          /\ out[r].task.op = "executeTurn"
          /\ Len(out[r].task.log) = 8
          /\ out[c].type = "turn_complete"

\* C4: once the unsubscribe function has been called the subscription sends
\* no getPlayerEvents request, calls onNewEvents no more and emits no
\* 'newPlayerEvents', also when a poll was in flight at that moment.
C4_Unsubscribed ==
    (sub.created /\ ~sub.isActive) =>
        /\ Idx(out, "onNewEvents") = {}
        /\ EmitIdx(out, "newPlayerEvents") = {}
        /\ \A i \in Idx(out, "send") : out[i].path.sub # "events"

\* C5: every event the server has reported to the subscription has been
\* passed to onNewEvents exactly once.
C5_EveryEventOnce ==
    \A e \in hist.reported : hist.delivered[e] = 1
\* C11: an update emits 'gameWon' (once) exactly when the fetched
\* havePlayersWon is true and the update is significant: there is no cached
\* state, or position x, position y, alive or remainingTurns differ from the
\* cached state.  An update without a significant change does not emit it,
\* and nothing but an update emits it.
C11_Step ==
    /\ EmitIdx(out', "stateChange") = {} => EmitIdx(out', "gameWon") = {}
    /\ \A j \in EmitIdx(out', "stateChange") :
          LET d == out'[j].data
              significant ==
                  \/ _lastPlayerState = Null
                  \/ _lastPlayerState[1].player.position # d.player.position
                  \/ _lastPlayerState[1].player.alive # d.player.alive
                  \/ _lastPlayerState[1].gameState.remainingTurns
                         # d.gameState.remainingTurns
          IN  /\ Cardinality(EmitIdx(out', "gameWon")) <= 1
              /\ EmitIdx(out', "gameWon") # {} <=>
                    (d.gameState.havePlayersWon /\ significant)
              /\ \A g \in EmitIdx(out', "gameWon") : out'[g].data = d

C11_GameWon == [][C11_Step]_vars

\* an update fetched a won game that had already been cached as won, with
\* nothing significant changed, and did not emit 'gameWon' again
C11_Witness ==
    /\ EmitIdx(out, "gameWon") = {}
    /\ \E u \in Idx(out, "update"), j \in EmitIdx(out, "stateChange") :
          /\ out[u].ok
          /\ out[u].prev # Null
          /\ out[u].prev[1].gameState.havePlayersWon
          /\ out[j].data.gameState.havePlayersWon
\* the operations pending in, or returned by, this state
C14_Calls ==
    tasks \cup {out[i].task : i \in Idx(out, "return")}

\* the base URL given to the constructor, without its last character when
\* that is a slash
C14_Base ==
    IF args.baseUrl # << >> /\ args.baseUrl[Len(args.baseUrl)] = "/"
    THEN [i \in 1..(Len(args.baseUrl) - 1) |-> args.baseUrl[i]]
    ELSE args.baseUrl

\* the method and the path of the server API for the operation t
C14_Api(t) ==
    LET id == encodeURIComponent(t.playerId.v)
    IN  CASE t.op = "getGameState" ->
               [method |-> "GET", path |-> Path("config", << >>, "", << >>, 0)]
          [] t.op = "addPlayer" ->
               [method |-> "POST", path |-> Path("player", id, "", << >>, 0)]
          [] t.op = "getPlayer" ->
               [method |-> "GET", path |-> Path("player", id, "", << >>, 0)]
          [] t.op = "getPlayerSurroundings" ->
               [method |-> "GET",
                path |-> Path("player", id, "surroundings", << >>, 0)]
          [] t.op = "setPlayerDirection" ->
               [method |-> "PUT",
                path |-> Path("player", id, "direction",
                              C7_Lower(t.direction.v), 0)]
          [] t.op = "playCard" ->
               [method |-> "PUT",
                path |-> Path("player", id, "play",
                              C7_Lower(t.cardType.v), 0)]

\* the arguments of the operation t pass its validation
C14_Valid(t) ==
    /\ t.op # "getGameState" => ~Falsy(t.playerId)
    /\ t.op = "setPlayerDirection" =>
          t.direction.t = "string" /\ C7_Lower(t.direction.v) \in C7_Directions
    /\ t.op = "playCard" =>
          t.cardType.t = "string" /\ C7_Lower(t.cardType.v) \in C7_Cards

\* C14: getGameState, addPlayer, getPlayer, getPlayerSurroundings,
\* setPlayerDirection and playCard each send exactly one request (none when
\* the arguments are rejected), with the method and the path of the server
\* API, to the base URL without its one trailing slash.
C14_Requests ==
    \A t \in C14_Calls :
        /\ Len(t.log) = IF C14_Valid(t) THEN 1 ELSE 0
        /\ \A n \in 1..Len(t.log) :
              /\ t.log[n].method = C14_Api(t).method
              /\ t.log[n].path = C14_Api(t).path
              /\ t.log[n].base = C14_Base
        /\ \A i \in Idx(out, "send") :
              (t.log # << >> /\ out[i].id = t.log[1].id) =>
                  /\ out[i].method = C14_Api(t).method
                  /\ out[i].path = C14_Api(t).path
                  /\ out[i].base = C14_Base

\* addPlayer and setPlayerDirection are pending, on a client whose base URL
\* was given with two trailing slashes
C14_Witness ==
    /\ args.baseUrl = <<"h", "/", "/">>
    /\ \E t, u \in tasks :
          /\ t.op = "addPlayer"
          /\ u.op = "setPlayerDirection"
          /\ t.log[1].base = <<"h", "/">>
          /\ t.log[1].method = "POST"
          /\ u.log[1].path.arg = <<"n", "o", "r", "t", "h">>
\* C16: a client constructed with enablePolling true polls by itself: its
\* interval timer is armed; one constructed with enablePolling false has no
\* timer armed and starts no update before startPolling is called.
C16_AutoPolling ==
    /\ args.enablePolling => (_pollingTimer # Null /\ intervals # << >>)
    /\ (~args.enablePolling /\ timerSeq = 0) =>
          /\ _pollingTimer = Null
          /\ intervals = << >>
          /\ _requestId = 0
\* C17: when the request of getPlayerEvents or getPlayerEventsByType fails,
\* the method rejects with the GommoError _request rejected with, and the
\* call emits neither 'eventsReceived' nor 'filteredEventsReceived'.
C17_EventsFailure ==
    \A i \in Idx(out, "settle"), r \in Idx(out, "return") :
        (/\ ~out[i].ok
         /\ out[r].task.op \in {"getPlayerEvents", "getPlayerEventsByType"}
         /\ out[r].task.log[1].id = out[i].id)
        => /\ ~out[r].ok
           /\ out[r].error = out[i].error
           /\ EmitIdx(out, "eventsReceived") = {}
           /\ EmitIdx(out, "filteredEventsReceived") = {}
\* C18: the states fetched by polls are applied in the order in which the
\* polls were started: a poll whose state is applied was started after
\* every poll whose state has been applied before (polls are numbered by
\* their first request).
C18_Step ==
    \A u \in Idx(out', "update") :
        (out'[u].ok /\ out'[u].task.op = "poll")
        => out'[u].task.log[1].id > hist.latestPoll

C18_PollOrder == [][C18_Step]_vars
-----------------------------------------------------------------------------
(* The retries of the application's data updates *)

\* the attempts of an update function that have failed
FailedAttempts(fn) == Len(app.retry[fn].delays) + app.retry[fn].messages

\* an attempt of the function is running or scheduled
AttemptPending(fn) ==
    \/ \E t \in tasks : t.caller.fn = fn
    \/ \E timer \in app.timers : timer.fn = fn

\* C12: each of updatePlayerData, updateGameConfig and
\* updateSurroundingsData is attempted at most 1 + MAX_RETRY_ATTEMPTS times,
\* the k-th attempt with the retry counter k - 1; a retry is scheduled after
\* each of the first MAX_RETRY_ATTEMPTS failures only; the error message is
\* shown once, after the last failed attempt, and nothing is scheduled or
\* running for the function then
C12_RetryChain ==
    \A fn \in UpdateFunctions :
        LET r == app.retry[fn]
        IN  /\ Len(r.attempts) <= 1 + MAX_RETRY_ATTEMPTS
            /\ \A k \in DOMAIN r.attempts : r.attempts[k] = k - 1
            /\ Len(r.delays) <= MAX_RETRY_ATTEMPTS
            /\ \A timer \in app.timers :
                   timer.fn = fn =>
                       /\ timer.retryCount = Len(r.attempts)
                       /\ timer.retryCount <= MAX_RETRY_ATTEMPTS
            /\ r.messages <= 1
            /\ FailedAttempts(fn) = 1 + MAX_RETRY_ATTEMPTS
                   <=> r.messages = 1
            /\ r.messages = 1 =>
                   /\ Len(r.attempts) = 1 + MAX_RETRY_ATTEMPTS
                   /\ ~AttemptPending(fn)

\* a function has failed 1 + MAX_RETRY_ATTEMPTS times and shown its message
C12_Witness ==
    \E fn \in UpdateFunctions :
        /\ app.retry[fn].attempts = <<0, 1, 2, 3>>
        /\ Len(app.retry[fn].delays) = MAX_RETRY_ATTEMPTS
        /\ app.retry[fn].messages = 1

\* C13 as stated: the delay before a retry is greater than the delay before
\* the retry that preceded it
C13_Backoff ==
    \A fn \in UpdateFunctions :
        LET delays == app.retry[fn].delays
        IN  \A k \in 1..(Len(delays) - 1) : delays[k + 1] > delays[k]

\* C13: the delay before every retry is the same, CONFIG.RETRY_DELAY
C13_ConstantDelay ==
    /\ \A fn \in UpdateFunctions :
          \A k \in DOMAIN app.retry[fn].delays :
              app.retry[fn].delays[k] = RETRY_DELAY
    /\ \A timer \in app.timers : timer.delay = RETRY_DELAY

\* a function has been retried twice, a third retry is scheduled
C13_Witness ==
    \E fn \in UpdateFunctions :
        /\ Len(app.retry[fn].delays) = 3
        /\ Len(app.retry[fn].attempts) = 3
        /\ \E timer \in app.timers : timer.fn = fn /\ timer.retryCount = 3

-----------------------------------------------------------------------------
(* The tiles of the application *)

\* the states that the step has delivered to handleStateChange
DeliveredStates ==
    { out[i].data : i \in { j \in DOMAIN out :
                               /\ out[j].k = "onStateChange"
                               /\ out[j].type = "state" } }

\* C15: after a poll has delivered its state to handleStateChange the tiles
\* display the surroundings that the poll has fetched (stated for the tiles
\* that display surroundings at all: they display the zombie count of the
\* delivered state)
C15_FreshTiles ==
    (app.gameClient /\ app.tiles # Null) =>
        \A d \in DeliveredStates :
            app.tiles[1].ZombieCount = d.surroundings.center.zombies

-----------------------------------------------------------------------------
(* Tile clicks *)

\* two clicks have been handled, both requests have succeeded and both
\* handlers have finished
TwoClicksDone ==
    /\ Len(app.clicked) = 2
    /\ Len(app.moved) = 2
    /\ ~\E t \in tasks : t.caller.fn = "handleTileClick"

\* C19: once the handlers of two tile clicks have finished,
\* state.player.direction is the direction of the tile clicked last, which is
\* the tile shown active
C19_LastClickWins ==
    TwoClicksDone =>
        /\ app.active = Str(app.clicked[2])
        /\ Str(app.player.direction) = DIRECTION_MAP(app.clicked[2])

====
